---- MODULE Spec2Model ----
(***************************************************************************)
(* Model of bluetoe::link_layer::scheduled_radio                           *)
(* (bluetoe/link_layer/scheduled_radio.hpp).                               *)
(*                                                                         *)
(* The header declares the radio scheduling interface and documents the    *)
(* contract of every member function.  The operations below follow those   *)
(* documented contracts.  The machinery the header leaves to a concrete    *)
(* radio (the timer, the completion interrupt, the flags that hand a       *)
(* completion over to run()) is modelled after the design description.     *)
(*                                                                         *)
(* Two contexts exist: the main context, which calls the schedule_*        *)
(* functions and run(), and the interrupt context, in which the radio      *)
(* hardware reports progress and in which wake_up() may be called.         *)
(*                                                                         *)
(* Not modelled: the channel number and the contents of the transmit and   *)
(* receive buffers (only whether the receive buffer is empty matters).     *)
(***************************************************************************)
EXTENDS Integers, Naturals, Sequences, FiniteSets, TLC

\* ------------------------------------------------------------------ bounds
\* width of the time counter in bits
TimeBits == 2
TimeMod == 2 ^ TimeBits
\* largest relative offset (delta_time) a caller passes
MaxDelta == 1
\* ticks the transmission of the advertising PDU takes
TxTime == 1
\* ticks the advertising receive window stays open
RxWindow == 1
\* ticks a connection event may last after the first PDU was received
EventLen == 1

\* received PDUs the packet buffer has room for
MaxBuffered == 1

\* ticks between the end of the transmission and the start of receiving
\* (stands for the 150us of the interface description)
IFS == 1

Deltas == 0 .. MaxDelta
Times == 0 .. (TimeMod - 1)
NoTime == 0 - 1

AdvCallbacks == {"adv_received", "adv_timeout"}
ConnCallbacks == {"timeout", "end_event"}
CallBack == AdvCallbacks \cup ConnCallbacks

\* pairs of access address and CRC init: the fixed pair of the advertising
\* channels and the pair of a connection
Configs == {"advertising", "connection"}

VARIABLES
    T0,         \* the anchor all relative offsets are based on
    now,        \* the hardware time counter
    op,         \* the scheduled operation that is pending (kind "none": no one)
    radio,      \* phase of the radio hardware
    cnt,        \* ticks until the radio's timer fires next
    first_rx,   \* time stamp latched by the radio for the anchor of a connection event
    flags,      \* completions reported by the interrupt, not yet handed to the CallBack
    wake_up_,   \* request to return from run()
    pc,         \* position of the main context: "app", "run_wait", "callback", "run_exit",
                \* "buffer" and "buffer_done" (inside a guarded section of the packet buffer)
    cb,         \* the callback that is executing ("none": no one)
    active,     \* number of callbacks that are executing
    cbs,        \* history: callbacks delivered since the last schedule_* call
    g,          \* history: facts about the operation scheduled last
    owed,       \* history: wake_up() was called and run() has not returned since
    latch,      \* access address and CRC init set last
    radio_cfg,  \* access address and CRC init the radio transmits and receives with
    lock,       \* who is inside a guarded section of the packet buffer: "free", "main"
    received    \* number of received PDUs queued in the packet buffer

vars == << T0, now, op, radio, cnt, first_rx, flags, wake_up_, pc, cb, active, cbs, g, owed,
           latch, radio_cfg, lock, received >>

NoOp == [ kind |-> "none", when |-> 0, rxEmpty |-> FALSE, start |-> 0, end |-> 0, interval |-> 0 ]

NoHistory ==
    [ kind |-> "none", T0s |-> 0, when |-> 0, rxEmpty |-> FALSE, start |-> 0, end |-> 0,
      txOnTime |-> FALSE, txDone |-> FALSE, rxOpened |-> FALSE, crc |-> FALSE,
      firstRx |-> NoTime, later |-> FALSE, early |-> FALSE, woken |-> "no",
      cfg |-> "advertising", exit |-> "none",
      moved |-> FALSE ]

\* absolute time of a relative offset to the anchor, in the width of the counter
\* variant: the sum is not reduced to the width of the counter
AbsTime_not_wrapped(anchor, delta) == anchor + delta

AbsTime(anchor, delta) == (anchor + delta) % TimeMod

\* ticks from the current counter value until the counter equals t
TicksUntil(t) == (t + TimeMod - now) % TimeMod

\* ------------------------------------------------------------------ Init
\* state after the constructor returned: the first T0 is defined by the
\* return of the constructor
Init ==
    /\ now \in Times
    /\ T0 = now
    /\ op = NoOp
    /\ radio = "idle"
    /\ cnt = 0
    /\ first_rx = 0
    /\ flags = {}
    /\ wake_up_ = FALSE
    /\ pc = "app"
    /\ cb = "none"
    /\ active = 0
    /\ cbs = << >>
    /\ g = NoHistory
    /\ owed = FALSE
    /\ latch = "advertising"
    /\ radio_cfg = "advertising"
    /\ lock = "free"
    /\ received = 0

\* ------------------------------------------------- main context: scheduling
\* variant: the anchor is moved to the transmission time when the
\* advertisement is scheduled
schedule_advertisment_and_receive_moves_anchor(when, rxEmpty) ==
    /\ pc \in {"app", "callback"}
    /\ op.kind = "none"
    /\ op' = [ NoOp EXCEPT !.kind = "adv", !.when = when, !.rxEmpty = rxEmpty ]
    /\ radio' = "adv_armed"
    /\ cnt' = TicksUntil(AbsTime(T0, when))
    /\ cbs' = << >>
    /\ g' = [ NoHistory EXCEPT !.kind = "adv", !.T0s = T0, !.when = when, !.rxEmpty = rxEmpty,
                               !.cfg = latch,
                               !.moved = (g.kind # "none" /\ T0 # g.T0s) ]
    /\ first_rx' = 0
    /\ radio_cfg' = latch
    /\ T0' = AbsTime(T0, when)
    /\ UNCHANGED << latch, lock, received >>
    /\ UNCHANGED << now, flags, wake_up_, pc, cb, active, owed >>

\* schedule_advertisment_and_receive( channel, transmit, when, receive ):
\* returns immediately; the transmission is due at T0 + when
schedule_advertisment_and_receive(when, rxEmpty) ==
    /\ pc \in {"app", "callback"}
    /\ op.kind = "none"
    /\ op' = [ NoOp EXCEPT !.kind = "adv", !.when = when, !.rxEmpty = rxEmpty ]
    /\ radio' = "adv_armed"
    /\ cnt' = TicksUntil(AbsTime(T0, when))
    /\ cbs' = << >>
    /\ g' = [ NoHistory EXCEPT !.kind = "adv", !.T0s = T0, !.when = when, !.rxEmpty = rxEmpty,
                               !.cfg = latch,
                               !.moved = (g.kind # "none" /\ T0 # g.T0s) ]
    /\ first_rx' = 0
    /\ radio_cfg' = latch
    /\ UNCHANGED << latch, lock, received >>
    /\ UNCHANGED << T0, now, flags, wake_up_, pc, cb, active, owed >>

\* schedule_connection_event( channel, start_receive, end_receive, connection_interval ):
\* returns immediately; the receiver is due at T0 + start_receive
schedule_connection_event(start_receive, end_receive, connection_interval) ==
    /\ pc \in {"app", "callback"}
    /\ op.kind = "none"
    /\ op' = [ NoOp EXCEPT !.kind = "conn", !.start = start_receive, !.end = end_receive,
                           !.interval = connection_interval ]
    /\ radio' = "conn_armed"
    /\ cnt' = TicksUntil(AbsTime(T0, start_receive))
    /\ cbs' = << >>
    /\ g' = [ NoHistory EXCEPT !.kind = "conn", !.T0s = T0, !.start = start_receive,
                               !.end = end_receive, !.cfg = latch,
                               !.moved = (g.kind # "none" /\ T0 # g.T0s) ]
    /\ first_rx' = 0
    /\ radio_cfg' = latch
    /\ UNCHANGED << latch, lock, received >>
    /\ UNCHANGED << T0, now, flags, wake_up_, pc, cb, active, owed >>

\* variant: the values are written to the radio at once
set_access_address_and_crc_init_at_once(config) ==
    /\ pc \in {"app", "callback"}
    /\ latch' = config
    /\ radio_cfg' = config
    /\ UNCHANGED << lock, received >>
    /\ UNCHANGED << T0, now, op, radio, cnt, first_rx, flags, wake_up_, pc, cb, active, cbs, g, owed >>

\* set_access_address_and_crc_init( access_address, crc_init ): the values
\* are kept and applied with the next call to a scheduling function
set_access_address_and_crc_init(config) ==
    /\ pc \in {"app", "callback"}
    /\ latch' = config
    /\ UNCHANGED << radio_cfg, lock, received >>
    /\ UNCHANGED << T0, now, op, radio, cnt, first_rx, flags, wake_up_, pc, cb, active, cbs, g, owed >>

\* ------------------------------------------- main context: packet buffer
\* The application takes the next received PDU out of the packet buffer.
\* The buffer takes a lock_guard for the time it works on its queue; while
\* the guard exists the interrupt does not touch the buffer.
buffer_lock ==
    /\ pc = "app"
    /\ lock = "free"
    /\ lock' = "main"
    /\ pc' = "buffer"
    /\ UNCHANGED << T0, now, op, radio, cnt, first_rx, flags, wake_up_, cb, active, cbs, g, owed,
                    latch, radio_cfg, received >>

\* the queue holds a PDU: it is taken out
buffer_pop ==
    /\ pc = "buffer"
    /\ received > 0
    /\ received' = received - 1
    /\ pc' = "buffer_done"
    /\ UNCHANGED << T0, now, op, radio, cnt, first_rx, flags, wake_up_, cb, active, cbs, g, owed,
                    latch, radio_cfg, lock >>

\* variant: the guard is not released when the section is left early
lock_guard_release_not_when_early(path) ==
    /\ lock' = IF path = "early" THEN lock ELSE "free"
    /\ pc' = "app"

\* the guarded section is left and the lock_guard is destructed: after the PDU
\* was taken ("normal"), at once as the queue is empty ("early") or because
\* the PDU cannot be handed out ("error")
lock_guard_release(path) ==
    /\ lock' = "free"
    /\ pc' = "app"

buffer_return(path) ==
    /\ \/ path = "normal" /\ pc = "buffer_done"
       \/ path = "early" /\ pc = "buffer" /\ received = 0
       \/ path = "error" /\ pc = "buffer" /\ received > 0
    /\ lock_guard_release(path)
    /\ g' = [ g EXCEPT !.exit = path ]
    /\ UNCHANGED << T0, now, op, radio, cnt, first_rx, flags, wake_up_, cb, active, cbs, owed,
                    latch, radio_cfg, received >>

\* ------------------------------------------------- interrupt context: radio
\* variant: the interrupt stores the PDU without regard to the guard
isr_store_pdu_unguarded ==
    /\ radio = "conn_event"
    /\ received < MaxBuffered
    /\ received' = received + 1
    /\ UNCHANGED << T0, now, op, radio, cnt, first_rx, flags, wake_up_, pc, cb, active, cbs, g, owed,
                    latch, radio_cfg, lock >>

\* during a connection event the interrupt stores a received PDU in the
\* packet buffer, unless the main context holds a lock_guard
isr_store_pdu ==
    /\ radio = "conn_event"
    /\ lock = "free"
    /\ received < MaxBuffered
    /\ received' = received + 1
    /\ UNCHANGED << T0, now, op, radio, cnt, first_rx, flags, wake_up_, pc, cb, active, cbs, g, owed,
                    latch, radio_cfg, lock >>

\* variant: the interrupt handler calls the CallBack itself
Complete_in_interrupt(name) ==
    /\ T0' = IF name \in AdvCallbacks THEN AbsTime(T0, op.when)
             ELSE IF name = "timeout" THEN T0 ELSE first_rx
    /\ op' = NoOp
    /\ cb' = name
    /\ active' = active + 1
    /\ cbs' = Append(cbs, name)
    /\ UNCHANGED << flags, pc >>

\* a completion is recorded for run(); nothing of the consumer runs here
Complete(name) ==
    /\ flags' = flags \cup {name}
    /\ UNCHANGED << T0, op, pc, cb, active, cbs >>

\* the time counter advances; the radio's timer counts down with it and
\* fires (one of the actions below) when it reaches zero
Tick ==
    /\ radio = "idle" \/ cnt > 0
    /\ now' = (now + 1) % TimeMod
    /\ cnt' = IF radio = "idle" THEN cnt ELSE cnt - 1
    /\ UNCHANGED << T0, op, radio, first_rx, flags, wake_up_, pc, cb, active, cbs, g, owed >>
    /\ UNCHANGED << latch, radio_cfg, lock, received >>

\* T0 + when is reached: the advertising PDU goes on air
adv_tx_start ==
    /\ radio = "adv_armed" /\ cnt = 0
    /\ radio' = "adv_tx"
    /\ cnt' = TxTime
    /\ g' = [ g EXCEPT !.txOnTime = (now = AbsTime(g.T0s, g.when)) ]
    /\ UNCHANGED << T0, now, op, first_rx, flags, wake_up_, pc, cb, active, cbs, owed >>
    /\ UNCHANGED << latch, radio_cfg, lock, received >>

\* variant: the receiver is started even though the receive buffer is empty
adv_tx_done_always_receives ==
    /\ radio = "adv_tx" /\ cnt = 0
    /\ radio' = "adv_ifs"
    /\ cnt' = IFS
    /\ g' = [ g EXCEPT !.txDone = TRUE ]
    /\ UNCHANGED << T0, now, op, first_rx, flags, wake_up_, pc, cb, active, cbs, owed >>
    /\ UNCHANGED << latch, radio_cfg, lock, received >>

\* the PDU was sent: with an empty receive buffer this is the timeout,
\* otherwise the receiver is started IFS later
adv_tx_done ==
    /\ radio = "adv_tx" /\ cnt = 0
    /\ IF op.rxEmpty
         THEN /\ radio' = "idle"
              /\ cnt' = 0
              /\ g' = [ g EXCEPT !.txDone = TRUE ]
              /\ Complete("adv_timeout")
         ELSE /\ radio' = "adv_ifs"
              /\ cnt' = IFS
              /\ g' = [ g EXCEPT !.txDone = TRUE ]
              /\ UNCHANGED << T0, op, pc, cb, active, cbs, flags >>
    /\ UNCHANGED << now, first_rx, wake_up_, owed >>
    /\ UNCHANGED << latch, radio_cfg, lock, received >>

adv_rx_open ==
    /\ radio = "adv_ifs" /\ cnt = 0
    /\ radio' = "adv_rx"
    /\ cnt' = RxWindow
    /\ g' = [ g EXCEPT !.rxOpened = TRUE ]
    /\ UNCHANGED << T0, now, op, first_rx, flags, wake_up_, pc, cb, active, cbs, owed >>
    /\ UNCHANGED << latch, radio_cfg, lock, received >>

\* outcome of receiving a response in the advertising receive window
AdvOutcome(crc_ok) == IF crc_ok THEN "adv_received" ELSE "adv_timeout"

\* variant: the receiver is left on after a response was reported
adv_rx_pdu_keeps_listening(crc_ok) ==
    /\ radio = "adv_rx"
    /\ g' = [ g EXCEPT !.crc = ~crc_ok, !.early = ~crc_ok /\ cnt > 0,
                       !.firstRx = IF crc_ok THEN now ELSE @ ]
    /\ Complete(AdvOutcome(crc_ok))
    /\ UNCHANGED << radio, cnt, now, first_rx, wake_up_, owed >>
    /\ UNCHANGED << latch, radio_cfg, lock, received >>

\* variant: after a CRC error the receiver keeps listening until the window ends
adv_rx_pdu_waits_after_crc_error(crc_ok) ==
    /\ radio = "adv_rx"
    /\ IF crc_ok
         THEN /\ radio' = "idle"
              /\ cnt' = 0
              /\ g' = [ g EXCEPT !.firstRx = now ]
              /\ Complete("adv_received")
         ELSE /\ g' = [ g EXCEPT !.crc = TRUE, !.early = cnt > 0 ]
              /\ UNCHANGED << radio, cnt, flags, T0, op, pc, cb, active, cbs >>
    /\ UNCHANGED << now, first_rx, wake_up_, owed >>
    /\ UNCHANGED << latch, radio_cfg, lock, received >>

\* a response was received while the advertising receive window is open;
\* a CRC error ends the operation at once
adv_rx_pdu(crc_ok) ==
    /\ radio = "adv_rx"
    /\ radio' = "idle"
    /\ cnt' = 0
    /\ g' = [ g EXCEPT !.crc = ~crc_ok, !.early = ~crc_ok /\ cnt > 0,
                       !.firstRx = IF crc_ok THEN now ELSE @ ]
    /\ Complete(AdvOutcome(crc_ok))
    /\ UNCHANGED << now, first_rx, wake_up_, owed >>
    /\ UNCHANGED << latch, radio_cfg, lock, received >>

\* the advertising receive window closed without a response
adv_rx_timeout ==
    /\ radio = "adv_rx" /\ cnt = 0
    /\ radio' = "idle"
    /\ cnt' = 0
    /\ UNCHANGED g
    /\ Complete("adv_timeout")
    /\ UNCHANGED << now, first_rx, wake_up_, owed >>
    /\ UNCHANGED << latch, radio_cfg, lock, received >>

\* variant: the receive window stays open one tick beyond T0 + end_receive
conn_rx_open_closes_late ==
    /\ radio = "conn_armed" /\ cnt = 0
    /\ radio' = "conn_rx"
    /\ cnt' = op.end - op.start + 1
    /\ g' = [ g EXCEPT !.rxOpened = TRUE ]
    /\ UNCHANGED << T0, now, op, first_rx, flags, wake_up_, pc, cb, active, cbs, owed >>
    /\ UNCHANGED << latch, radio_cfg, lock, received >>

\* T0 + start_receive is reached: the receive window of the connection
\* event opens and stays open until T0 + end_receive
conn_rx_open ==
    /\ radio = "conn_armed" /\ cnt = 0
    /\ radio' = "conn_rx"
    /\ cnt' = op.end - op.start
    /\ g' = [ g EXCEPT !.rxOpened = TRUE ]
    /\ UNCHANGED << T0, now, op, first_rx, flags, wake_up_, pc, cb, active, cbs, owed >>
    /\ UNCHANGED << latch, radio_cfg, lock, received >>

\* variant: every valid PDU of the event renews the time stamp
AnchorStamp_latest(t) == t

\* the time stamp the radio keeps for the anchor when a valid PDU arrives
\* at time t during a connection event
AnchorStamp(t) == IF radio = "conn_rx" THEN t ELSE first_rx

\* a PDU arrives in the receive window of the connection event; only a
\* valid one starts the event
conn_rx_pdu(crc_ok) ==
    /\ radio = "conn_rx"
    /\ IF crc_ok
         THEN /\ first_rx' = AnchorStamp(now)
              /\ radio' = "conn_event"
              /\ cnt' = EventLen
              /\ g' = [ g EXCEPT !.firstRx = now ]
         ELSE /\ g' = [ g EXCEPT !.crc = TRUE ]
              /\ UNCHANGED << first_rx, radio, cnt >>
    /\ UNCHANGED << T0, now, op, flags, wake_up_, pc, cb, active, cbs, owed >>
    /\ UNCHANGED << latch, radio_cfg, lock, received >>

\* a further valid PDU of the master within the running connection event
conn_event_pdu ==
    /\ radio = "conn_event"
    /\ first_rx' = AnchorStamp(now)
    /\ g' = [ g EXCEPT !.later = @ \/ (now # g.firstRx) ]
    /\ UNCHANGED << T0, now, op, radio, cnt, flags, wake_up_, pc, cb, active, cbs, owed >>
    /\ UNCHANGED << latch, radio_cfg, lock, received >>

\* variant: after an empty receive window the radio arms itself for the
\* window of the next connection interval
conn_rx_timeout_retries ==
    /\ radio = "conn_rx" /\ cnt = 0
    /\ radio' = "conn_armed"
    /\ cnt' = op.interval - (op.end - op.start)
    /\ UNCHANGED << T0, now, op, first_rx, flags, wake_up_, pc, cb, active, cbs, g, owed >>
    /\ UNCHANGED << latch, radio_cfg, lock, received >>

\* between start_receive and end_receive no valid PDU was received
conn_rx_timeout ==
    /\ radio = "conn_rx" /\ cnt = 0
    /\ radio' = "idle"
    /\ cnt' = 0
    /\ UNCHANGED g
    /\ Complete("timeout")
    /\ UNCHANGED << now, first_rx, wake_up_, owed >>
    /\ UNCHANGED << latch, radio_cfg, lock, received >>

\* variant: the timer of the receive window is left running and reports a
\* timeout together with the end of the event
conn_event_close_with_timeout ==
    /\ radio = "conn_event"
    /\ radio' = "idle"
    /\ cnt' = 0
    /\ flags' = flags \cup {"end_event", "timeout"}
    /\ UNCHANGED << T0, now, op, first_rx, wake_up_, pc, cb, active, cbs, g, owed >>
    /\ UNCHANGED << latch, radio_cfg, lock, received >>

\* the connection event is over
conn_event_close ==
    /\ radio = "conn_event"
    /\ radio' = "idle"
    /\ cnt' = 0
    /\ UNCHANGED g
    /\ Complete("end_event")
    /\ UNCHANGED << now, first_rx, wake_up_, owed >>
    /\ UNCHANGED << latch, radio_cfg, lock, received >>

\* variant: the request is only seen by a run() that is already waiting
wake_up_only_when_waiting ==
    /\ wake_up_' = (wake_up_ \/ pc = "run_wait")
    /\ owed' = TRUE
    /\ g' = [ g EXCEPT !.woken = IF op.kind # "none" /\ @ = "no" THEN "called" ELSE @ ]
    /\ UNCHANGED << T0, now, op, radio, cnt, first_rx, flags, pc, cb, active, cbs >>
    /\ UNCHANGED << latch, radio_cfg, lock, received >>

\* variant: wake_up() aborts the pending operation
wake_up_cancels ==
    /\ wake_up_' = TRUE
    /\ owed' = TRUE
    /\ g' = [ g EXCEPT !.woken = IF op.kind # "none" /\ @ = "no" THEN "called" ELSE @ ]
    /\ op' = NoOp
    /\ radio' = "idle"
    /\ cnt' = 0
    /\ UNCHANGED << T0, now, first_rx, flags, pc, cb, active, cbs >>
    /\ UNCHANGED << latch, radio_cfg, lock, received >>

\* wake_up(): forces run() to return at least once; callable from an
\* interrupt handler at any time
wake_up ==
    /\ wake_up_' = TRUE
    /\ owed' = TRUE
    /\ g' = [ g EXCEPT !.woken = IF op.kind # "none" /\ @ = "no" THEN "called" ELSE @ ]
    /\ UNCHANGED << T0, now, op, radio, cnt, first_rx, flags, pc, cb, active, cbs >>
    /\ UNCHANGED << latch, radio_cfg, lock, received >>

\* ------------------------------------------------- main context: run()
\* variant: only a received response moves the anchor of an advertisement
NewT0_adv_received_only(name) ==
    CASE name = "adv_received" -> AbsTime(T0, op.when)
      [] name = "adv_timeout"  -> T0
      [] name = "timeout"      -> T0
      [] name = "end_event"    -> first_rx

\* variant: a timed out connection event moves the anchor to the window
NewT0_timeout_moves(name) ==
    CASE name \in AdvCallbacks -> AbsTime(T0, op.when)
      [] name = "timeout"      -> AbsTime(T0, op.start)
      [] name = "end_event"    -> first_rx

\* the anchor that is in effect once the outcome `name` of the pending
\* operation is delivered
NewT0(name) ==
    CASE name \in AdvCallbacks -> AbsTime(T0, op.when)
      [] name = "timeout"      -> T0
      [] name = "end_event"    -> first_rx

\* the completion run() hands over next
NextFlag ==
    IF "adv_received" \in flags THEN "adv_received"
    ELSE IF "adv_timeout" \in flags THEN "adv_timeout"
    ELSE IF "timeout" \in flags THEN "timeout"
    ELSE "end_event"

\* the application gives the CPU to the radio
run_enter ==
    /\ pc = "app"
    /\ pc' = "run_wait"
    /\ UNCHANGED << T0, now, op, radio, cnt, first_rx, flags, wake_up_, cb, active, cbs, g, owed >>
    /\ UNCHANGED << latch, radio_cfg, lock, received >>

\* variant: the anchor of the operation is not written before its CallBack
\* is called
run_dispatch_anchor_not_updated ==
    /\ pc = "run_wait"
    /\ flags # {}
    /\ flags' = flags \ {NextFlag}
    /\ op' = NoOp
    /\ cb' = NextFlag
    /\ active' = active + 1
    /\ cbs' = Append(cbs, NextFlag)
    /\ pc' = "callback"
    /\ UNCHANGED << T0, now, radio, cnt, first_rx, wake_up_, g, owed >>
    /\ UNCHANGED << latch, radio_cfg, lock, received >>

\* variant: the operation stays pending until its CallBack has returned
run_dispatch_keeps_pending ==
    /\ pc = "run_wait"
    /\ flags # {}
    /\ flags' = flags \ {NextFlag}
    /\ T0' = NewT0(NextFlag)
    /\ cb' = NextFlag
    /\ active' = active + 1
    /\ cbs' = Append(cbs, NextFlag)
    /\ pc' = "callback"
    /\ UNCHANGED << now, op, radio, cnt, first_rx, wake_up_, g, owed >>
    /\ UNCHANGED << latch, radio_cfg, lock, received >>

\* run() found a completion: the anchor moves, the operation is no longer
\* pending and the CallBack is called in the context of run()
run_dispatch ==
    /\ pc = "run_wait"
    /\ flags # {}
    /\ flags' = flags \ {NextFlag}
    /\ T0' = NewT0(NextFlag)
    /\ op' = NoOp
    /\ cb' = NextFlag
    /\ active' = active + 1
    /\ cbs' = Append(cbs, NextFlag)
    /\ pc' = "callback"
    /\ UNCHANGED << now, radio, cnt, first_rx, wake_up_, g, owed >>
    /\ UNCHANGED << latch, radio_cfg, lock, received >>

\* the CallBack returns to run()
callback_return ==
    /\ pc = "callback"
    /\ cb' = "none"
    /\ active' = active - 1
    /\ pc' = "run_exit"
    /\ UNCHANGED << T0, now, op, radio, cnt, first_rx, flags, wake_up_, cbs, g, owed >>
    /\ UNCHANGED << latch, radio_cfg, lock, received >>

\* run() stops waiting because of wake_up()
run_wake ==
    /\ pc = "run_wait"
    /\ flags = {}
    /\ wake_up_
    /\ pc' = "run_exit"
    /\ g' = [ g EXCEPT !.woken = IF op.kind # "none" THEN "returned" ELSE @ ]
    /\ UNCHANGED << T0, now, op, radio, cnt, first_rx, flags, wake_up_, cb, active, cbs, owed >>
    /\ UNCHANGED << latch, radio_cfg, lock, received >>

\* run() returns to the application
run_return ==
    /\ pc = "run_exit"
    /\ wake_up_' = FALSE
    /\ pc' = "app"
    /\ owed' = FALSE
    /\ UNCHANGED << T0, now, op, radio, cnt, first_rx, flags, cb, active, cbs, g >>
    /\ UNCHANGED << latch, radio_cfg, lock, received >>

\* static_random_address_seed() const: a query of a value that is fixed for
\* the device; nothing of the radio changes
static_random_address_seed ==
    /\ pc \in {"app", "callback"}
    /\ UNCHANGED vars

\* ------------------------------------------------------------------ Next
Interval == MaxDelta + 1

\* scheduling, the radio, run() and wake_up()
Next ==
    \/ \E when \in Deltas, rxEmpty \in BOOLEAN : schedule_advertisment_and_receive(when, rxEmpty)
    \/ \E s \in Deltas : \E e \in s .. MaxDelta : schedule_connection_event(s, e, Interval)
    \/ Tick
    \/ adv_tx_start
    \/ adv_tx_done
    \/ adv_rx_open
    \/ \E crc_ok \in BOOLEAN : adv_rx_pdu(crc_ok)
    \/ adv_rx_timeout
    \/ conn_rx_open
    \/ \E crc_ok \in BOOLEAN : conn_rx_pdu(crc_ok)
    \/ conn_event_pdu
    \/ conn_rx_timeout
    \/ conn_event_close
    \/ wake_up
    \/ run_enter
    \/ run_dispatch
    \/ callback_return
    \/ run_wake
    \/ run_return

Spec == Init /\ [][Next]_vars

\* the above together with the configuration of the access address and the
\* query of the address seed
ConfigNext ==
    \/ Next
    \/ \E config \in Configs : set_access_address_and_crc_init(config)
    \/ static_random_address_seed

ConfigSpec == Init /\ [][ConfigNext]_vars

\* connection events and run() together with the guarded sections of the
\* packet buffer the connection event's PDUs are stored in
GuardNext ==
    \/ \E s \in Deltas : \E e \in s .. MaxDelta : schedule_connection_event(s, e, Interval)
    \/ Tick
    \/ conn_rx_open
    \/ \E crc_ok \in BOOLEAN : conn_rx_pdu(crc_ok)
    \/ conn_event_pdu
    \/ conn_rx_timeout
    \/ conn_event_close
    \/ run_enter
    \/ run_dispatch
    \/ callback_return
    \/ run_return
    \/ buffer_lock
    \/ buffer_pop
    \/ \E path \in {"normal", "early", "error"} : buffer_return(path)
    \/ isr_store_pdu

GuardSpec == Init /\ [][GuardNext]_vars

\* The hardware makes progress (the counter runs, the timer fires), the
\* application keeps calling run(), run() keeps executing and a callback
\* returns.  Nothing forces the application to schedule, the peer to send
\* or anybody to call wake_up().
Fairness ==
    /\ WF_vars(Tick)
    /\ WF_vars(adv_tx_start)
    /\ WF_vars(adv_tx_done)
    /\ WF_vars(adv_rx_open)
    /\ WF_vars(adv_rx_timeout)
    /\ WF_vars(conn_rx_open)
    /\ WF_vars(conn_rx_timeout)
    /\ WF_vars(conn_event_close)
    /\ WF_vars(run_enter)
    /\ WF_vars(run_dispatch)
    /\ WF_vars(callback_return)
    /\ WF_vars(run_wake)
    /\ WF_vars(run_return)

LiveSpec == Spec /\ Fairness

\* a guarded section runs to its end: the main context is not stopped inside
GuardFairness ==
    /\ WF_vars(buffer_pop)
    /\ WF_vars(buffer_return("normal"))
    /\ WF_vars(buffer_return("early"))

GuardLiveSpec == GuardSpec /\ GuardFairness

TypeOK ==
    /\ T0 \in Times /\ now \in Times /\ first_rx \in Times
    /\ op.kind \in {"none", "adv", "conn"}
    /\ radio \in {"idle", "adv_armed", "adv_tx", "adv_ifs", "adv_rx", "conn_armed", "conn_rx", "conn_event"}
    /\ cnt \in 0 .. TimeMod
    /\ flags \subseteq CallBack
    /\ wake_up_ \in BOOLEAN /\ owed \in BOOLEAN
    /\ pc \in {"app", "run_wait", "callback", "run_exit", "buffer", "buffer_done"}
    /\ latch \in Configs /\ radio_cfg \in Configs
    /\ lock \in {"free", "main"}
    /\ received \in 0 .. MaxBuffered
    /\ cb \in CallBack \cup {"none"}
    /\ active \in 0 .. 1
    /\ Len(cbs) <= 1

\* ------------------------------------------------------------ properties
\* the operation scheduled last got its outcome and is no longer pending
Delivered == op.kind = "none" /\ Len(cbs) = 1

\* C1: every call to schedule_advertisment_and_receive gets exactly one
\* outcome callback, adv_received or adv_timeout: at no time more than one
\* completion is recorded or delivered for it, none of them is a connection
\* callback, the operation stops being pending only by its one callback, and
\* while run() keeps being called the callback is eventually delivered.
AdvExactlyOneCallback ==
    /\ [](g.kind = "adv" =>
            /\ flags \subseteq AdvCallbacks
            /\ \A i \in 1 .. Len(cbs) : cbs[i] \in AdvCallbacks
            /\ Len(cbs) + Cardinality(flags) <= 1
            /\ (op.kind = "none" => Len(cbs) = 1))
    /\ ((op.kind = "adv") ~> (g.kind = "adv" /\ Delivered))

AdvCallbackDelivered ==
    g.kind = "adv" /\ Delivered /\ cbs = << "adv_received" >> /\ pc = "app"

\* C2: every call to schedule_connection_event gets exactly one outcome
\* callback, timeout or end_event: never more than one, never an advertising
\* callback, and it is eventually delivered.
ConnExactlyOneCallback ==
    /\ [](g.kind = "conn" =>
            /\ flags \subseteq ConnCallbacks
            /\ \A i \in 1 .. Len(cbs) : cbs[i] \in ConnCallbacks
            /\ Len(cbs) + Cardinality(flags) <= 1
            /\ (op.kind = "none" => Len(cbs) = 1))
    /\ ((op.kind = "conn") ~> (g.kind = "conn" /\ Delivered))

ConnCallbackDelivered ==
    g.kind = "conn" /\ Delivered /\ cbs[1] \in ConnCallbacks /\ pc = "app"

\* C3: once the outcome of an advertising operation scheduled with offset
\* `when` is delivered, the anchor is the old T0 + when, for adv_received as
\* well as for adv_timeout (window timed out, CRC error, empty receive buffer).
AdvAnchorIsT0PlusWhen ==
    (g.kind = "adv" /\ Len(cbs) >= 1) => T0 = (g.T0s + g.when) % TimeMod

AdvTimeoutMovedAnchor ==
    g.kind = "adv" /\ cbs = << "adv_timeout" >> /\ g.when > 0 /\ T0 # g.T0s

\* C4: when a connection event ends with the timeout callback the anchor is
\* the one the event was scheduled with.
ConnTimeoutKeepsAnchor ==
    (g.kind = "conn" /\ Len(cbs) >= 1 /\ cbs[1] = "timeout") => T0 = g.T0s

ConnTimedOut ==
    g.kind = "conn" /\ cbs = << "timeout" >> /\ g.start > 0 /\ g.firstRx = NoTime

\* C5: when a connection event ends with the end_event callback the anchor
\* is the time the first valid PDU of that event was received.
EndEventAnchorIsFirstPdu ==
    (g.kind = "conn" /\ Len(cbs) >= 1 /\ cbs[1] = "end_event") => T0 = g.firstRx

EndEventAfterLaterPdu ==
    /\ g.kind = "conn" /\ cbs = << "end_event" >>
    /\ g.later
    /\ g.firstRx # (g.T0s + g.start) % TimeMod

\* C6: a callback executes only inside run(): a completion raised by the
\* interrupt is held in flags until run() hands it over, every delivery is a
\* step of run() from waiting into the callback (never a step of the interrupt
\* or of a schedule_* call), and at most one callback executes at a time.
CallbacksOnlyInRun ==
    /\ [](/\ active <= 1
          /\ (active = 1 <=> pc = "callback")
          /\ (cb # "none" <=> pc = "callback"))
    /\ [][ (cbs' # cbs /\ cbs' # << >>) \/ active' > active
              => pc = "run_wait" /\ pc' = "callback" ]_vars

CompletionHeldOutsideRun ==
    pc = "app" /\ flags # {} /\ op.kind # "none" /\ cb = "none" /\ cbs = << >>

\* C7: after wake_up() was called run() returns: a run() that is executing
\* returns, and if none is executing the next one does, with or without a
\* pending radio operation.
WakeUpMakesRunReturn == owed ~> ~owed

WakeUpBeforeRunWithoutOperation ==
    owed /\ wake_up_ /\ pc = "app" /\ op.kind = "none" /\ g.kind = "none"

\* the anchor the rule of the operation scheduled last asks for
ExpectedT0 ==
    IF g.kind = "adv" THEN (g.T0s + g.when) % TimeMod
    ELSE IF cbs[1] = "timeout" THEN g.T0s
    ELSE g.firstRx

\* C8: wake_up() does not touch a pending operation: neither the call nor
\* the return of run() it causes changes the operation, the radio, the
\* recorded completions, the delivered callbacks or the anchor; the operation
\* interrupted this way still gets its one callback and its own anchor rule.
WakeUpKeepsOperation ==
    /\ [][ \/ wake_up_' # wake_up_
           \/ owed' # owed
           \/ (g.woken = "no" /\ g'.woken = "called")
           \/ (pc = "run_wait" /\ pc' = "run_exit")
           \/ (pc = "run_exit" /\ pc' = "app")
              => UNCHANGED << op, radio, cnt, first_rx, flags, cbs, T0 >> ]_vars
    /\ [](g.woken # "no" => /\ Len(cbs) <= 1
                            /\ (op.kind = "none" => Len(cbs) = 1 /\ T0 = ExpectedT0))
    /\ ((g.woken # "no" /\ op.kind # "none") ~> (g.woken # "no" /\ Delivered))

OperationOutlivedWakeUp ==
    g.woken = "returned" /\ Delivered /\ pc = "app"

\* C9: with an empty receive buffer no receive window is opened, adv_received
\* is neither recorded nor delivered, and adv_timeout is raised by the end of
\* the transmission that started at T0 + when: not before it and not later.
EmptyReceiveBufferTimesOut ==
    (g.kind = "adv" /\ g.rxEmpty) =>
        /\ ~g.rxOpened
        /\ radio \notin {"adv_ifs", "adv_rx"}
        /\ "adv_received" \notin flags
        /\ \A i \in 1 .. Len(cbs) : cbs[i] = "adv_timeout"
        /\ ("adv_timeout" \in flags \/ cbs # << >>)
              => g.txDone /\ g.txOnTime
        /\ g.txDone => radio = "idle" /\ ("adv_timeout" \in flags \/ cbs # << >>)

EmptyReceiveBufferTimedOut ==
    g.kind = "adv" /\ g.rxEmpty /\ g.txDone /\ cbs = << "adv_timeout" >>

\* C10: a response that fails the CRC check ends the advertising operation
\* with adv_timeout in the very step the error is detected (the receiver goes
\* idle, the window is not waited out); adv_received is neither recorded nor
\* delivered for that operation afterwards.
CrcErrorIsImmediateTimeout ==
    /\ [](g.kind = "adv" /\ g.crc =>
            /\ radio = "idle"
            /\ "adv_received" \notin flags
            /\ \A i \in 1 .. Len(cbs) : cbs[i] = "adv_timeout"
            /\ ("adv_timeout" \in flags \/ cbs # << >>))
    /\ [][ g.kind = "adv" /\ ~g.crc /\ g'.crc
              => "adv_timeout" \in flags' /\ radio' = "idle" ]_vars

CrcErrorBeforeWindowEnd ==
    g.kind = "adv" /\ g.crc /\ g.early /\ cbs = << "adv_timeout" >>

\* C11: the values set last are the ones the next schedule_* call applies to
\* the radio, a pending operation keeps the values that were applied when it
\* was scheduled, and set_access_address_and_crc_init itself never changes
\* what the radio uses.
ConfigAppliedWithNextSchedule ==
    /\ [](op.kind # "none" => radio_cfg = g.cfg)
    /\ [][ (op.kind = "none" /\ op'.kind # "none") => radio_cfg' = latch /\ g'.cfg = latch ]_vars
    /\ [][ latch' # latch => radio_cfg' = radio_cfg ]_vars

ConfigSetWhilePending ==
    op.kind # "none" /\ radio \notin {"idle", "adv_armed", "conn_armed"} /\ latch # g.cfg

\* the receive window of the connection event scheduled last closed without
\* a valid PDU
EmptyWindowClosed ==
    g.kind = "conn" /\ g.rxOpened /\ g.firstRx = NoTime /\ radio # "conn_rx"

\* C12 as claimed: after the receive window closed without a valid PDU the
\* event is retried: the operation stays pending and the radio is armed for
\* the window of the next connection interval.
ConnEventRetriedAtNextInterval ==
    EmptyWindowClosed => op.kind = "conn" /\ radio = "conn_armed" /\ flags = {}

\* C12 as amended: after the receive window closed without a valid PDU the
\* radio is idle and opens no further window for this invocation; timeout is
\* its one outcome (recorded or delivered) and the anchor is the one the event
\* was scheduled with, so that a retry is a new call based on the same T0.
ConnEmptyWindowEndsOperation ==
    EmptyWindowClosed =>
        /\ radio = "idle"
        /\ flags \cup { cbs[i] : i \in 1 .. Len(cbs) } = {"timeout"}
        /\ Len(cbs) + Cardinality(flags) = 1
        /\ T0 = g.T0s

ConnEmptyWindowTimeoutInCallback ==
    EmptyWindowClosed /\ pc = "callback" /\ cb = "timeout" /\ g.end > g.start

\* the main context is inside a guarded section of the packet buffer
InGuardedSection == pc \in {"buffer", "buffer_done"}

\* C14: the interrupt and the main context are never inside a guarded buffer
\* section together: the main context holds the lock exactly while it is
\* inside its section, it changes the queue only then, and the interrupt
\* changes the queue only while the main context is outside and the lock free.
BufferMutualExclusion ==
    /\ [](lock = "main" <=> InGuardedSection)
    /\ [][ received' > received => lock = "free" /\ ~InGuardedSection ]_vars
    /\ [][ received' < received => lock = "main" /\ InGuardedSection ]_vars

InterruptHeldOffByGuard ==
    InGuardedSection /\ lock = "main" /\ radio = "conn_event" /\ received < MaxBuffered

\* C15: the lock is released on every way out of the guarded section (normal,
\* early, error), it is never held outside the section and so never while
\* run() waits, and once taken it is eventually free again.
LockAlwaysReleased ==
    /\ [](lock = "main" => InGuardedSection)
    /\ [](pc = "run_wait" => lock = "free")
    /\ [][ InGuardedSection /\ ~InGuardedSection' => lock' = "free" ]_vars
    /\ ((lock = "main") ~> (lock = "free"))

RunWaitsAfterEarlyExit ==
    g.exit = "early" /\ pc = "run_wait" /\ flags = {} /\ lock = "free"

\* C16: T0 changes only in the step that delivers the one callback of a
\* pending operation, so at most once per operation: it has the value it had
\* at the schedule call for as long as the operation is pending, and the
\* schedule_* call, set_access_address_and_crc_init,
\* static_random_address_seed, wake_up() and a run() that returns without a
\* callback leave it alone.
AnchorChangesOnlyAtDelivery ==
    /\ [][ T0' # T0 => /\ op.kind # "none" /\ op'.kind = "none"
                       /\ cbs = << >> /\ Len(cbs') = 1
                       /\ pc = "run_wait" /\ pc' = "callback" ]_vars
    /\ [](op.kind # "none" => T0 = g.T0s /\ cbs = << >>)
    /\ [][ (op.kind = "none" /\ op'.kind # "none") => T0' = T0 ]_vars
    /\ [][ latch' # latch => T0' = T0 ]_vars
    /\ [][ wake_up_' # wake_up_ => T0' = T0 ]_vars
    /\ [][ (pc = "run_wait" /\ pc' = "run_exit") => T0' = T0 ]_vars

AnchorKeptBySetWakeUpAndRun ==
    /\ op.kind # "none" /\ g.when + g.start > 0
    /\ latch # g.cfg
    /\ g.woken = "returned" /\ pc = "app"
    /\ T0 = g.T0s

\* distance from time a forward to time b on the wrapping counter
Distance(a, b) == (b + TimeMod - a) % TimeMod

FirstOffset(o) == IF o.kind = "adv" THEN o.when ELSE o.start

\* C19: the anchor rule of an operation is in effect before the next one can
\* be scheduled: a schedule call made inside the callback of an operation, or
\* at any time after it, takes the T0 that the operation's rule produced as
\* its anchor and arms the radio for that T0 plus the new offset, whatever
\* the T0 was when the earlier operation was scheduled.
NextScheduleUsesNewAnchor ==
    /\ [][ (op.kind = "none" /\ op'.kind # "none" /\ g.kind # "none") =>
              /\ Delivered
              /\ T0 = ExpectedT0
              /\ g'.T0s = ExpectedT0
              /\ (now + cnt') % TimeMod = (ExpectedT0 + FirstOffset(op')) % TimeMod ]_vars
    /\ []((g.kind # "none" /\ op.kind = "none") => T0 = ExpectedT0)
    /\ []((g.moved /\ radio \in {"adv_armed", "conn_armed"}) =>
              (now + cnt) % TimeMod = (T0 + FirstOffset(op)) % TimeMod)

ScheduledInCallbackOnMovedAnchor ==
    /\ g.moved /\ pc = "callback" /\ cb \in CallBack
    /\ op.kind # "none" /\ FirstOffset(op) > 0
    /\ radio \in {"adv_armed", "conn_armed"}
    /\ T0 = g.T0s

\* C20: the anchor never moves backward: the T0 an operation leaves behind is
\* the T0 it was scheduled with moved forward on the wrapping counter by less
\* than half the counter's range (by when after an advertisement, by nothing
\* after timeout), and after end_event it lies inside the receive window:
\* old T0 + start_receive <= new T0 <= old T0 + end_receive.
AnchorNeverMovesBackward ==
    (g.kind # "none" /\ Delivered) =>
        /\ 2 * Distance(g.T0s, T0) < TimeMod
        /\ g.kind = "adv" => Distance(g.T0s, T0) = g.when
        /\ cbs[1] = "timeout" => Distance(g.T0s, T0) = 0
        /\ cbs[1] = "end_event" => /\ g.start <= Distance(g.T0s, T0)
                                   /\ Distance(g.T0s, T0) <= g.end
                                   /\ T0 = g.firstRx

EndEventAnchorAtEndOfWindow ==
    /\ g.kind = "conn" /\ Delivered /\ cbs[1] = "end_event"
    /\ g.start < g.end
    /\ Distance(g.T0s, T0) = g.end
    /\ T0 < g.T0s

====
